---- MODULE Spec2Model ----
(***************************************************************************)
(* The kanji study backend, src/src/routes/api.ts, router.post('/kanji'):  *)
(*   - the compound-word selection (lines 178-235): Spec, SpecLong,        *)
(*     SpecWide, SpecTags, SpecMalformed;                                  *)
(*   - the handler as a whole with its cache (lines 10, 97-308):           *)
(*     SpecHandler, SpecCache;                                             *)
(* the transcription segmenter of spec.md section 4.1: SpecSegment;        *)
(* and the page script of the frontend (src/unnamed/part_004, lines        *)
(* 1-317): SpecPage, FairPage.                                             *)
(*                                                                         *)
(* A JavaScript string is a sequence of one-character strings, so that     *)
(* length, substring search, lower-casing and the tag patterns are         *)
(* computed and not assumed.  The handler's relevance scan is modelled     *)
(* one variant per step (the body of the inner for-of over                 *)
(* wordEntry.variants, with the loop tests that lead to the next variant), *)
(* then the assembly of uniqueCompounds and of responseData.               *)
(***************************************************************************)
EXTENDS Integers, Sequences, FiniteSets

VARIABLES
  kanji,                  \* req.body.kanji, after validation
  mainKanjiDetails,       \* {kanji, meaning, mainMeaningForFilter}
  wordsData,              \* parsed body of the words response
  pc,                     \* position of the handler
  ei,                     \* entry the outer for-of is at (0: loops over)
  vi,                     \* variant the inner for-of is at
  preferredCompounds,
  otherPriorityCompounds,
  compoundWordsList,
  responseData,
  input,                  \* argument of segment: null or a string
  segments,               \* the segments emitted so far
  origin,                 \* history: the token kind each segment came from
  sp,                     \* position of the scan in the string
  segPc,                  \* position of segment
  incoming,               \* bodies of the requests still to arrive
  req,                    \* the requests received, in order of arrival
  cache,                  \* kanjiCache: entries {k, v, t}
  now,                    \* the clock, in seconds
  seq,                    \* number of arrivals and answers so far
  serverUp,               \* the node process is running
  dom,                    \* the elements of the page the script works on
  history,                \* window.history with window.location
  searches                \* the calls of handleGenerateClick, in order

selectVars == <<kanji, mainKanjiDetails, wordsData, pc, ei, vi,
                preferredCompounds, otherPriorityCompounds, compoundWordsList,
                responseData>>

segVars == <<input, segments, origin, sp, segPc>>

handlerVars == <<incoming, req, cache, now, seq, serverUp>>

pageVars == <<dom, history, searches>>

vars == <<selectVars, segVars, handlerVars, pageVars>>

(***************************************************************************)
(* Bounds of the candidate lists.                                          *)
(***************************************************************************)
MaxEntries == 2
MaxVariants == 2
MaxLong == 6
MaxTags == 2
MaxInput == 5
MaxBodies == 2
MaxRequests == 3
MaxTicks == 3
MaxWide == 11
MaxSearches == 3

(***************************************************************************)
(* Strings.                                                                *)
(***************************************************************************)
UpperLetters == <<"A","B","C","D","E","F","G","H","I","J","K","L","M",
                  "N","O","P","Q","R","S","T","U","V","W","X","Y","Z">>
LowerLetters == <<"a","b","c","d","e","f","g","h","i","j","k","l","m",
                  "n","o","p","q","r","s","t","u","v","w","x","y","z">>

\* the characters that stand for kanji: the queried one and two others
Sha == "sha"
Den == "den"
Ki == "ki"

LowerChar(c) ==
  IF \E i \in DOMAIN UpperLetters : UpperLetters[i] = c
  THEN LowerLetters[CHOOSE i \in DOMAIN UpperLetters : UpperLetters[i] = c]
  ELSE c

\* String.prototype.toLowerCase
ToLowerCase(s) == [i \in DOMAIN s |-> LowerChar(s[i])]

\* String.prototype.includes
Includes(s, t) ==
  \E i \in 0..(Len(s) - Len(t)) : SubSeq(s, i + 1, i + Len(t)) = t

\* truthiness of a string value (undefined and "" are both falsy)
Truthy(s) == Len(s) > 0


(***************************************************************************)
(* The preferred tag patterns, api.ts line 181:                            *)
(*   [/^news[12]$/, /^nf0[1-9]$/, /^nf1[0-5]$/]                            *)
(* TagPatternTest(k, p) is preferredTags[k].test(p).                       *)
(***************************************************************************)
preferredTags == 1..3

\* faulty variant of line 181: the patterns without the anchors ^ and $
TagPatternUnanchored(k, p) ==
  CASE k = 1 -> \E i \in 0..(Len(p) - 5) :
                  /\ SubSeq(p, i + 1, i + 4) = <<"n","e","w","s">>
                  /\ p[i + 5] \in {"1","2"}
    [] k = 2 -> \E i \in 0..(Len(p) - 4) :
                  /\ SubSeq(p, i + 1, i + 3) = <<"n","f","0">>
                  /\ p[i + 4] \in {"1","2","3","4","5","6","7","8","9"}
    [] k = 3 -> \E i \in 0..(Len(p) - 4) :
                  /\ SubSeq(p, i + 1, i + 3) = <<"n","f","1">>
                  /\ p[i + 4] \in {"0","1","2","3","4","5"}

TagPatternTest(k, p) ==
  CASE k = 1 -> /\ Len(p) = 5
                /\ SubSeq(p, 1, 4) = <<"n","e","w","s">>
                /\ p[5] \in {"1","2"}
    [] k = 2 -> /\ Len(p) = 4
                /\ SubSeq(p, 1, 3) = <<"n","f","0">>
                /\ p[4] \in {"1","2","3","4","5","6","7","8","9"}
    [] k = 3 -> /\ Len(p) = 4
                /\ SubSeq(p, 1, 3) = <<"n","f","1">>
                /\ p[4] \in {"0","1","2","3","4","5"}

(***************************************************************************)
(* The relevance pass on one variant, api.ts lines 188-212.                *)
(***************************************************************************)
\* line 190: wordEntry.meanings[0].glosses[0], falsy when any part is missing
Gloss(wordEntry) ==
  IF Len(wordEntry.glosses) > 0 THEN wordEntry.glosses[1] ELSE <<>>

\* line 191
HasFields(written, pronounced, gloss) ==
  Truthy(written) /\ Truthy(pronounced) /\ Truthy(gloss)

\* faulty variant of line 192: the test never fires
NeverSelf(written) == FALSE

\* line 192
IsSelf(written) == written = mainKanjiDetails.kanji

\* line 193
HasKanji(written) == Includes(written, kanji)

\* faulty variant of line 194: the length limit is off by one
TooLongFive(written) == Len(written) > 5

\* line 194
TooLong(written) == Len(written) > 4

\* faulty variant of line 195: the gloss is compared as written
SameMeaningExact(gloss) ==
  /\ Truthy(mainKanjiDetails.mainMeaningForFilter)
  /\ gloss = mainKanjiDetails.mainMeaningForFilter

\* line 195
SameMeaning(gloss) ==
  /\ Truthy(mainKanjiDetails.mainMeaningForFilter)
  /\ ToLowerCase(gloss) = mainKanjiDetails.mainMeaningForFilter

\* faulty variant of line 196: a variant without tags is not skipped
AnyPriorities(variant) == TRUE

\* line 196
HasPriority(variant) == Len(variant.priorities) > 0

\* lines 198-206
IsPreferred(variant) ==
  \E k \in preferredTags :
    \E i \in DOMAIN variant.priorities : TagPatternTest(k, variant.priorities[i])

\* lines 191-197: the variant reaches line 198
Eligible(wordEntry, variant) ==
  /\ HasFields(variant.written, variant.pronounced, Gloss(wordEntry))
  /\ ~IsSelf(variant.written)
  /\ HasKanji(variant.written)
  /\ ~TooLong(variant.written)
  /\ ~SameMeaning(Gloss(wordEntry))
  /\ HasPriority(variant)

\* line 207
Compound(wordEntry, variant) ==
  [word |-> variant.written, reading |-> variant.pronounced,
   meaning |-> Gloss(wordEntry)]

\* faulty variant of line 184: the outer loop stops one early
PreferredFullFour(preferred) == Len(preferred) >= 4

\* line 184: the outer loop stops
PreferredNeverFull(preferred) == FALSE

PreferredFull(preferred) == Len(preferred) >= 5

\* line 187: the inner loop stops
ScanFull(preferred, other) == Len(preferred) + Len(other) >= 10

\* line 208
PreferredHasRoomSix(preferred) == Len(preferred) < 6

PreferredHasRoom(preferred) == Len(preferred) < 5

\* faulty variant of line 210: the other tier holds one less
OtherHasRoomFour(other) == Len(other) < 4

\* line 210
OtherHasRoom(other) == Len(other) < 5

(***************************************************************************)
(* Assembly, api.ts lines 217-219 and 235.                                 *)
(* new Map(pairs) inserts the pairs in order: a key seen for the first     *)
(* time is appended, a key seen again keeps its position and takes the new *)
(* value.  Array.from(map.values()) lists the values in key order.         *)
(***************************************************************************)
MapSet(m, item) ==
  IF \E p \in DOMAIN m : m[p].word = item.word
  THEN [p \in DOMAIN m |-> IF m[p].word = item.word THEN item ELSE m[p]]
  ELSE Append(m, item)

RECURSIVE NewMap(_, _)
NewMap(m, items) ==
  IF items = <<>> THEN m ELSE NewMap(MapSet(m, Head(items)), Tail(items))

\* line 217
Combined(preferred, other) == preferred \o other

\* faulty variant of line 218: no deduplication
KeepAll(combined) == combined

\* line 218
UniqueCompounds(combined) == NewMap(<<>>, combined)

\* faulty variant of line 235: the response takes the whole list
WholeList(list) == list

\* line 235: compoundWordsList.slice(0, 5)
Slice5(list) == SubSeq(list, 1, IF Len(list) < 5 THEN Len(list) ELSE 5)

\* lines 144-150: the details kept from the kanji response
NA == <<"N","/","A">>

KanjiDetails(dataKanji, dataMeanings) ==
  LET meaning == IF Len(dataMeanings) > 0 THEN dataMeanings[1] ELSE NA
  IN [kanji |-> dataKanji, meaning |-> meaning,
      mainMeaningForFilter |-> ToLowerCase(meaning)]


(***************************************************************************)
(* Candidate lists.  The words response is a list of entries               *)
(*   {variants: [{written, pronounced, priorities}], meanings: [{glosses}]}*)
(* of which the handler reads variants and meanings[0].glosses.  The lists *)
(* are drawn from small pools, each pool built around one group of rules.  *)
(***************************************************************************)
DenSha == <<Den, Sha>>
ShaKi == <<Sha, Ki>>
DenKi == <<Den, Ki>>
Four == <<Den, Sha, Ki, Ki>>
Five == <<Den, Sha, Ki, Ki, Ki>>

Yomi1 == <<"de","n","sha">>
Yomi2 == <<"ku","ru","ma">>

News1 == <<"n","e","w","s","1">>
Ichi1 == <<"i","c","h","i","1">>
Nf05 == <<"n","f","0","5">>
EmptyTag == <<>>

Bus == <<"b","u","s">>
CarUpper == <<"C","a","r">>
CarLower == <<"c","a","r">>

V(w, p, t) == [written |-> w, pronounced |-> p, priorities |-> t]

Family(pool, glosses, meanings) ==
  [pool |-> pool, glosses |-> glosses, meanings |-> meanings]

\* same written form with two readings and two tiers, and a second word
OrderFamily ==
  Family({V(DenSha, Yomi1, <<News1>>), V(DenSha, Yomi2, <<Ichi1>>),
          V(ShaKi, Yomi1, <<News1>>)},
         {<<Bus>>}, {<<CarUpper>>})

\* the kanji alone
WrittenFamily ==
  Family({V(DenSha, Yomi1, <<News1>>), V(<<Sha>>, Yomi1, <<News1>>)},
         {<<Bus>>}, {<<CarUpper>>})

\* written forms of length 4 and 5, a word without the kanji
LengthFamily ==
  Family({V(Four, Yomi1, <<Ichi1>>), V(Five, Yomi1, <<News1>>),
          V(DenKi, Yomi1, <<News1>>)},
         {<<Bus>>}, {<<CarUpper>>})

\* no tag, one empty tag, a preferred tag behind another tag
TagFamily ==
  Family({V(DenSha, Yomi1, <<>>), V(DenSha, Yomi1, <<EmptyTag>>),
          V(ShaKi, Yomi1, <<Ichi1, Nf05>>)},
         {<<Bus>>}, {<<CarUpper>>})

\* a missing written or pronounced form
FieldFamily ==
  Family({V(<<>>, Yomi1, <<News1>>), V(DenSha, <<>>, <<News1>>)},
         {<<Bus>>}, {<<CarUpper>>})

\* glosses against the meaning of the kanji
MeaningFamily ==
  Family({V(DenSha, Yomi1, <<News1>>)},
         {<<>>, <<Bus>>, <<CarUpper>>, <<CarLower>>},
         {<<>>, <<CarUpper>>, <<CarLower>>})

Families ==
  {OrderFamily, WrittenFamily, LengthFamily, TagFamily, FieldFamily,
   MeaningFamily}

VariantLists(pool) == UNION {[1..n -> pool] : n \in 0..MaxVariants}

Entries(pool, glosses) ==
  {[variants |-> vs, glosses |-> g] : vs \in VariantLists(pool), g \in glosses}

CandidateLists(pool, glosses, n) == [1..n -> Entries(pool, glosses)]

(***************************************************************************)
(* Long candidate lists: up to MaxLong entries of one variant each, every  *)
(* variant eligible, tagged news1 or ichi1.  The written forms are         *)
(* numbered in order of first appearance (the k-th new written form is     *)
(* Word(k)): lists that differ only in which written form is which are     *)
(* scanned alike.                                                          *)
(***************************************************************************)
Partners == <<"k1","k2","k3","k4","k5","k6","k7","k8","k9","k10","k11","k12","k13">>

Word(k) == <<Sha, Partners[k]>>

RECURSIVE MaxOf(_)
MaxOf(ws) ==
  IF ws = <<>> THEN 0
  ELSE LET m == MaxOf(Tail(ws)) IN IF Head(ws) > m THEN Head(ws) ELSE m

RECURSIVE WordOrders(_)
WordOrders(n) ==
  IF n = 0 THEN {<<>>}
  ELSE UNION {{Append(ws, k) : k \in 1..(MaxOf(ws) + 1)} : ws \in WordOrders(n - 1)}

LongList(ws, ts) ==
  [i \in DOMAIN ws |->
     [variants |-> <<V(Word(ws[i]), Yomi1, <<ts[i]>>)>>, glosses |-> <<Bus>>]]

(***************************************************************************)
(* A value that is null, and an entry without the variants property.       *)
(* Reading a property of null throws a TypeError (wordEntry.variants at    *)
(* line 185, variant.written at line 188); the throw leaves the try block  *)
(* of lines 161-220 for the catch at line 221.                             *)
(***************************************************************************)
Null == [null |-> TRUE]

IsNull(x) == "null" \in DOMAIN x

\* line 185: wordEntry.variants && Array.isArray(wordEntry.variants)
HasVariants(wordEntry) == "variants" \in DOMAIN wordEntry

(***************************************************************************)
(* The two nested for-of loops, api.ts lines 183-187 and 214-216.          *)
(* NextVariant gives the position of the next variant whose body (line     *)
(* 188) runs when the loops continue at variant v of entry e; v = 0 stands *)
(* for the outer loop taking entry e.  Position(0, 0): both loops are over;*)
(* Thrown: line 185 threw on a null entry.                                 *)
(***************************************************************************)
Position(e, v) == [ei |-> e, vi |-> v]

Thrown == Position(-1, -1)

RECURSIVE NextVariant(_, _, _, _, _)
NextVariant(data, e, v, preferred, other) ==
  IF v = 0
  THEN IF e > Len(data) \/ PreferredFull(preferred)
       THEN Position(0, 0)
       ELSE IF IsNull(data[e])
       THEN Thrown
       ELSE IF ~HasVariants(data[e])
       THEN NextVariant(data, e + 1, 0, preferred, other)
       ELSE NextVariant(data, e, 1, preferred, other)
  ELSE IF v > Len(data[e].variants) \/ ScanFull(preferred, other)
       THEN NextVariant(data, e + 1, 0, preferred, other)
       ELSE Position(e, v)

ScanPc(pos) ==
  IF pos.ei = 0 THEN "assemble" ELSE IF pos.ei < 0 THEN "caught" ELSE "scan"

\* no page is open
PageIdle ==
  /\ dom = [value |-> <<>>, loadingIndicator |-> FALSE, generateButton |-> FALSE,
            errorMessageDiv |-> FALSE, resultsSection |-> FALSE,
            resultKanji |-> <<>>]
  /\ history = [entries |-> <<>>, at |-> 0]
  /\ searches = <<>>

\* no request arrives
HandlerIdle ==
  /\ incoming = <<>>
  /\ req = <<>>
  /\ cache = {}
  /\ now = 0
  /\ seq = 0
  /\ serverUp = TRUE

\* the segmenter is not running
SegmentIdle ==
  /\ input = [text |-> <<>>]
  /\ segments = <<>>
  /\ origin = <<>>
  /\ sp = 0
  /\ segPc = "idle"

(***************************************************************************)
(* The handler from the parsed words response on (api.ts line 178).        *)
(***************************************************************************)
Start(k, dataMeanings, data) ==
  LET pos == NextVariant(data, 1, 0, <<>>, <<>>)
  IN /\ kanji = k
     /\ mainKanjiDetails = KanjiDetails(k, dataMeanings)
     /\ wordsData = data
     /\ pc = ScanPc(pos)
     /\ ei = pos.ei
     /\ vi = pos.vi
     /\ preferredCompounds = <<>>
     /\ otherPriorityCompounds = <<>>
     /\ compoundWordsList = <<>>
     /\ responseData = [compound_words |-> <<>>]
     /\ SegmentIdle
     /\ HandlerIdle
     /\ PageIdle

Init ==
  \E f \in Families :
    \E m \in f.meanings :
      \E n \in 0..MaxEntries :
        \E data \in CandidateLists(f.pool, f.glosses, n) :
          Start(<<Sha>>, m, data)

\* lines 188-212: the two tiers after the body of the inner loop ran on variant
Tiers(wordEntry, variant, preferred, other) ==
  IF ~Eligible(wordEntry, variant)
  THEN [preferred |-> preferred, other |-> other]
  ELSE IF IsPreferred(variant) /\ PreferredHasRoom(preferred)
  THEN [preferred |-> Append(preferred, Compound(wordEntry, variant)),
        other |-> other]
  ELSE IF OtherHasRoom(other)
  THEN [preferred |-> preferred,
        other |-> Append(other, Compound(wordEntry, variant))]
  ELSE [preferred |-> preferred, other |-> other]

\* lines 188-212 for the variant at (ei, vi), then the loops up to the next
\* variant; line 188 throws on a null variant
ScanVariant ==
  /\ pc = "scan"
  /\ IF IsNull(wordsData[ei].variants[vi])
     THEN /\ pc' = "caught"
          /\ UNCHANGED <<preferredCompounds, otherPriorityCompounds, ei, vi>>
     ELSE \E t \in {Tiers(wordsData[ei], wordsData[ei].variants[vi],
                          preferredCompounds, otherPriorityCompounds)} :
            \E pos \in {NextVariant(wordsData, ei, vi + 1, t.preferred, t.other)} :
              /\ preferredCompounds' = t.preferred
              /\ otherPriorityCompounds' = t.other
              /\ ei' = pos.ei
              /\ vi' = pos.vi
              /\ pc' = ScanPc(pos)
  /\ UNCHANGED <<kanji, mainKanjiDetails, wordsData, compoundWordsList,
                 responseData>>
  /\ UNCHANGED <<segVars, handlerVars, pageVars>>

\* lines 221-225: the catch of the words block logs the error; compoundWordsList
\* keeps the value it had before the try
Catch ==
  /\ pc = "caught"
  /\ pc' = "respond"
  /\ UNCHANGED <<kanji, mainKanjiDetails, wordsData, ei, vi, preferredCompounds,
                 otherPriorityCompounds, compoundWordsList, responseData>>
  /\ UNCHANGED <<segVars, handlerVars, pageVars>>

\* lines 217-219
Assemble ==
  /\ pc = "assemble"
  /\ compoundWordsList' =
       UniqueCompounds(Combined(preferredCompounds, otherPriorityCompounds))
  /\ pc' = "respond"
  /\ UNCHANGED <<kanji, mainKanjiDetails, wordsData, ei, vi, preferredCompounds,
                 otherPriorityCompounds, responseData>>
  /\ UNCHANGED <<segVars, handlerVars, pageVars>>

\* lines 231-237
Respond ==
  /\ pc = "respond"
  /\ responseData' = [compound_words |-> Slice5(compoundWordsList)]
  /\ pc' = "done"
  /\ UNCHANGED <<kanji, mainKanjiDetails, wordsData, ei, vi, preferredCompounds,
                 otherPriorityCompounds, compoundWordsList>>
  /\ UNCHANGED <<segVars, handlerVars, pageVars>>

Next == ScanVariant \/ Assemble \/ Respond

Spec == Init /\ [][Next]_vars

InitLong ==
  \E n \in 0..MaxLong :
    \E ws \in WordOrders(n) :
      \E ts \in [1..n -> {News1, Ichi1}] :
        Start(<<Sha>>, <<CarUpper>>, LongList(ws, ts))

SpecLong == InitLong /\ [][Next]_vars

(***************************************************************************)
(* Wide candidate lists: two entries that hold up to MaxWide variants      *)
(* between them, every variant eligible, tagged news1 or ichi1, with       *)
(* written forms that all differ.  The first entry holds the first cut     *)
(* variants (none, half or all of them): a tier can fill up in the middle  *)
(* of an entry.                                                            *)
(***************************************************************************)
WideEntry(ts, from, to) ==
  [variants |-> [i \in 1..(to - from + 1) |->
                   V(Word(from + i - 1), Yomi1, <<ts[from + i - 1]>>)],
   glosses |-> <<Bus>>]

WideList(ts, cut) == <<WideEntry(ts, 1, cut), WideEntry(ts, cut + 1, Len(ts))>>

Cuts(n) == {0, (n + 1) \div 2, n}

InitWide ==
  \E n \in 0..MaxWide :
    \E ts \in [1..n -> {News1, Ichi1}] :
      \E cut \in Cuts(n) :
        Start(<<Sha>>, <<CarUpper>>, WideList(ts, cut))

SpecWide == InitWide /\ [][Next]_vars

(***************************************************************************)
(* Candidate lists for the tag patterns: one entry of one eligible variant *)
(* with up to MaxTags tags, drawn from tags that match a pattern, tags one *)
(* off a pattern and longer tags that contain a matching tag.              *)
(***************************************************************************)
TagPool ==
  {News1, <<"n","e","w","s","2">>, <<"n","e","w","s","3">>,
   <<"n","e","w","s","1","2">>, <<"x","n","e","w","s","1">>,
   <<"N","E","W","S","1">>, <<"n","f","0","0">>, <<"n","f","0","1">>,
   <<"n","f","0","9">>, <<"n","f","1","0">>, <<"n","f","1","5">>,
   <<"n","f","1","6">>, <<"n","f","2","0">>, <<"n","f","0","1","1">>,
   <<"n","f","1">>, Ichi1}

InitTags ==
  \E n \in 1..MaxTags :
    \E ts \in [1..n -> TagPool] :
      Start(<<Sha>>, <<CarUpper>>,
            <<[variants |-> <<V(DenSha, Yomi1, ts)>>, glosses |-> <<Bus>>]>>)

SpecTags == InitTags /\ [][Next]_vars

(***************************************************************************)
(* Candidate lists with malformed units: a null entry, an entry without    *)
(* variants, an entry without gloss, a null variant, variants without      *)
(* written form, pronounced form or tags, among well-formed entries.       *)
(***************************************************************************)
NoVariants == [glosses |-> <<Bus>>]

MalformedPool ==
  {[variants |-> <<V(DenSha, Yomi1, <<News1>>)>>, glosses |-> <<Bus>>],
   [variants |-> <<V(ShaKi, Yomi1, <<Ichi1>>)>>, glosses |-> <<Bus>>],
   Null,
   NoVariants,
   [variants |-> <<V(DenSha, Yomi2, <<News1>>)>>, glosses |-> <<>>],
   [variants |-> <<Null, V(ShaKi, Yomi2, <<News1>>)>>, glosses |-> <<Bus>>],
   [variants |-> <<V(<<>>, Yomi1, <<News1>>), V(DenSha, <<>>, <<News1>>),
                   V(DenSha, Yomi1, <<>>)>>,
    glosses |-> <<Bus>>]}

InitMalformed ==
  \E n \in 0..(MaxEntries + 1) :
    \E data \in [1..n -> MalformedPool] :
      Start(<<Sha>>, <<CarUpper>>, data)

NextMalformed == ScanVariant \/ Catch \/ Assemble \/ Respond

SpecMalformed == InitMalformed /\ [][NextMalformed]_vars

\* the selection is not running
SelectIdle ==
  /\ kanji = <<Sha>>
  /\ mainKanjiDetails = KanjiDetails(<<Sha>>, <<>>)
  /\ wordsData = <<>>
  /\ pc = "idle"
  /\ ei = 0
  /\ vi = 0
  /\ preferredCompounds = <<>>
  /\ otherPriorityCompounds = <<>>
  /\ compoundWordsList = <<>>
  /\ responseData = [compound_words |-> <<>>]

(***************************************************************************)
(* The transcription segmenter, segment(input) of spec.md section 4.1.     *)
(* The backend code that builds the segments list consumed by              *)
(* displayResults (src/unnamed/part_004 lines 209-217) is not part of the  *)
(* sources; the definitions below follow the stated grammar.  The bracket  *)
(* pattern of the grammar is the one of api.ts line 287,                   *)
(*   \[ [^|]+ \| [^\]]+ \]                                                 *)
(* The string is scanned from position sp: a bracket token at sp, else a   *)
(* plain token at sp, else the character at sp is skipped.                 *)
(***************************************************************************)
Text(s) == [text |-> s]

Whitespace == {" "}

\* the least position >= from of s that holds c, 0 when there is none
FirstIndex(s, c, from) ==
  IF \E j \in from..Len(s) : s[j] = c
  THEN CHOOSE j \in from..Len(s) : s[j] = c /\ \A k \in from..(j - 1) : s[k] # c
  ELSE 0

\* "[" at i, one or more characters other than "|", then "|": its position
BarOf(s, i) ==
  LET j == FirstIndex(s, "|", i + 1)
  IN IF s[i] = "[" /\ j >= i + 2 THEN j ELSE 0

\* ... one or more characters other than "]", then "]": its position
\* (0: no bracket token starts at i)
BracketEnd(s, i) ==
  LET j == BarOf(s, i)
      k == IF j = 0 THEN 0 ELSE FirstIndex(s, "]", j + 1)
  IN IF j # 0 /\ k >= j + 2 THEN k ELSE 0

\* the last position of the maximal run without "[" and "]" that starts at i
\* (0: the character at i is a bracket)
PlainEnd(s, i) ==
  IF s[i] \in {"[", "]"} THEN 0
  ELSE CHOOSE k \in i..Len(s) :
         /\ \A m \in i..k : s[m] \notin {"[", "]"}
         /\ k = Len(s) \/ s[k + 1] \in {"[", "]"}

\* the text is empty after trimming
IsBlank(t) == \A i \in DOMAIN t : t[i] \in Whitespace

NotBar(c) == c # "|"

\* faulty variant: the annotation is kept as it is
KeepBars(t) == t

\* the annotation with the residual "|" characters stripped
StripBars(t) == SelectSeq(t, NotBar)

\* faulty variant: every bracket token gives a segment
NeverBlank(t) == FALSE

\* a bracket token gives a segment only if its base is non-empty after trimming
BaseIsEmpty(base) == IsBlank(base)

\* faulty variant: every plain run gives a segment
KeepBlankRun(run) == FALSE

\* faulty variant: no plain run gives a segment
DropEveryRun(run) == TRUE

\* a plain run gives a segment only if it is not whitespace only
RunIsBlank(run) == IsBlank(run)

\* faulty variant: the scan stays at a character that starts no token
StayAt(i) == i

\* the scan moves past a character that starts no token
SkipTo(i) == i + 1

SegPcAfter(s, next) == IF next > Len(s) THEN "done" ELSE "scan"

\* null or empty input yields the empty sequence
SegmentEnter ==
  /\ segPc = "start"
  /\ IF IsNull(input) \/ input.text = <<>>
     THEN segPc' = "done" /\ sp' = 0
     ELSE segPc' = "scan" /\ sp' = 1
  /\ UNCHANGED <<input, segments, origin>>
  /\ UNCHANGED <<selectVars, handlerVars, pageVars>>

BracketToken ==
  /\ segPc = "scan"
  /\ BracketEnd(input.text, sp) # 0
  /\ LET s == input.text
         j == BarOf(s, sp)
         k == BracketEnd(s, sp)
         base == SubSeq(s, sp + 1, j - 1)
         annotation == SubSeq(s, j + 1, k - 1)
     IN /\ IF BaseIsEmpty(base)
           THEN UNCHANGED <<segments, origin>>
           ELSE /\ segments' =
                     Append(segments, [text |-> base, reading |-> StripBars(annotation)])
                /\ origin' = Append(origin, "bracket")
        /\ sp' = k + 1
        /\ segPc' = SegPcAfter(s, k + 1)
  /\ UNCHANGED input
  /\ UNCHANGED <<selectVars, handlerVars, pageVars>>

PlainToken ==
  /\ segPc = "scan"
  /\ BracketEnd(input.text, sp) = 0
  /\ PlainEnd(input.text, sp) # 0
  /\ LET s == input.text
         k == PlainEnd(s, sp)
         run == SubSeq(s, sp, k)
     IN /\ IF RunIsBlank(run)
           THEN UNCHANGED <<segments, origin>>
           ELSE /\ segments' = Append(segments, [text |-> run])
                /\ origin' = Append(origin, "plain")
        /\ sp' = k + 1
        /\ segPc' = SegPcAfter(s, k + 1)
  /\ UNCHANGED input
  /\ UNCHANGED <<selectVars, handlerVars, pageVars>>

\* a character that starts neither token is skipped
SkipChar ==
  /\ segPc = "scan"
  /\ BracketEnd(input.text, sp) = 0
  /\ PlainEnd(input.text, sp) = 0
  /\ sp' = SkipTo(sp)
  /\ segPc' = SegPcAfter(input.text, SkipTo(sp))
  /\ UNCHANGED <<input, segments, origin>>
  /\ UNCHANGED <<selectVars, handlerVars, pageVars>>

(***************************************************************************)
(* The inputs of segment: null, every string of up to MaxInput characters  *)
(* over brackets, the delimiter, a blank and two letters, and the strings  *)
(* the contract names.                                                     *)
(***************************************************************************)
Alphabet == {"[", "]", "|", " ", "x", "y"}

Examples ==
  {<<"[", "a", "|", "b", "|", "c", "]">>,
   <<"[", Den, Sha, "|", "de", "n", "sha", "]", "ni", "no", "ru">>,
   <<"p", "l", "a", "i", "n", " ", "t", "e", "x", "t">>,
   <<"[", "x", "|", "|", "y", "|", "]", " ", "[", " ", "|", "y", "]">>,
   <<"[", "x", "|", "y", "]", " ", "[", "x", "|", "y", "]">>,
   <<"x", "[", " ", "|", "y", "]", "[", "x", "|", "y", "]">>}

SegmentCall(in) ==
  /\ SelectIdle
  /\ input = in
  /\ segments = <<>>
  /\ origin = <<>>
  /\ sp = 0
  /\ segPc = "start"
  /\ HandlerIdle
  /\ PageIdle

InitSegment ==
  \/ SegmentCall(Null)
  \/ \E s \in Examples : SegmentCall(Text(s))
  \/ \E n \in 0..MaxInput : \E s \in [1..n -> Alphabet] : SegmentCall(Text(s))

NextSegment == SegmentEnter \/ BracketToken \/ PlainToken \/ SkipChar

SpecSegment == InitSegment /\ [][NextSegment]_vars

\* segment runs to its end
FairSegment == InitSegment /\ [][NextSegment]_vars /\ WF_vars(NextSegment)

(***************************************************************************)
(* The handler of POST /api/kanji as a whole, api.ts lines 97-308, with    *)
(* the cache of line 10.  A request runs from its arrival to its first     *)
(* await in one step (Receive) and then from one settled fetch to the next *)
(* await or to the response; other requests run in between.  The bodies of *)
(* the external responses are not looked into: a fetch succeeds or fails.  *)
(***************************************************************************)
\* line 10: stdTTL, in seconds
stdTTL == 3600

\* the clock moves in steps of half the lifetime
TickSeconds == stdTTL \div 2

\* req.body.kanji as parsed by express.json()
Undefined == [type |-> "undefined"]

Number == [type |-> "number"]

Str(s) == [type |-> "string", text |-> s]

\* a UTF-16 surrogate code unit without its pair
LoneSurrogate == "uD800"

\* the characters of the ranges of line 106
KanjiChars == {Sha, Den, Ki}

\* line 100: encodeURIComponent(kanji) throws a URIError on a lone surrogate
EncodeThrows(v) ==
  v.type = "string" /\ \E i \in DOMAIN v.text : v.text[i] = LoneSurrogate

\* line 103: !kanji || typeof kanji !== 'string'
NotAString(v) == v.type # "string" \/ v.text = <<>>

\* lines 106-107: /^[\u4E00-\u9FFF\u3400-\u4DBF\uF900-\uFAFF]+$/.test(kanji)
KanjiRegexTest(t) == Len(t) >= 1 /\ \A i \in DOMAIN t : t[i] \in KanjiChars

\* line 110
BadLength(t) == Len(t) = 0 \/ Len(t) > 3

\* lines 103-112
Invalid(v) == NotAString(v) \/ ~KanjiRegexTest(v.text) \/ BadLength(v.text)

\* node-cache: an entry is dead once its time t has passed
NeverExpired(e) == FALSE

Expired(e) == e.t < now

HasEntry(k) == \E e \in cache : e.k = k

Entry(k) == CHOOSE e \in cache : e.k = k

\* line 115: kanjiCache.get(kanji) returns the value of a live entry
CacheHit(k) == HasEntry(k) /\ ~Expired(Entry(k))

\* get deletes the entry it finds dead
CacheAfterGet(k) == {e \in cache : ~(e.k = k /\ Expired(e))}

\* line 305: kanjiCache.set(kanji, responseData)
CacheSet(k, v) ==
  {e \in cache : e.k # k} \cup {[k |-> k, v |-> v, t |-> now + stdTTL]}

\* what a successful words fetch and a successful sentences fetch leave in
\* the response
\* (the words the dictionary returns can differ from one fetch to the next)
Fetches == {"failed", "ok", "changed"}

WordsFetched(k, fetch) ==
  IF fetch = "failed" THEN <<>>
  ELSE <<[word |-> k \o <<Ki>>,
          reading |-> IF fetch = "ok" THEN Yomi1 ELSE Yomi2,
          meaning |-> Bus]>>

SentencesFetched(k) == <<[japanese |-> k \o <<Ki>>, translation |-> Bus]>>

\* lines 231-237
ResponseData(k, words, sentences) ==
  [kanji |-> k, compound_words |-> words, example_sentences |-> sentences]

ErrorBody(status) == [error |-> status]

NoBody == [none |-> TRUE]

\* a request on arrival
Arrived(v) ==
  [kanji |-> v, hpc |-> "received", status |-> 0, body |-> NoBody, calls |-> 0,
   cacheRead |-> FALSE, cacheWrote |-> FALSE, wordsOk |-> FALSE,
   sentencesOk |-> FALSE, words |-> <<>>, details |-> "none",
   arrived |-> seq + 1, arrivedAt |-> now, answered |-> 0, answeredAt |-> 0]

\* res.status(status).json(body)
Answered(r, status, body, at) ==
  [r EXCEPT !.hpc = "done", !.status = status, !.body = body,
            !.answered = at, !.answeredAt = now]

\* lines 97-129: a request arrives and runs up to the details fetch
Receive ==
  /\ serverUp
  /\ incoming # <<>>
  /\ incoming' = Tail(incoming)
  /\ LET v == Head(incoming)
         r == Arrived(v)
     IN IF EncodeThrows(v)
        THEN \* the async handler rejects, nothing handles the rejection:
             \* node ends the process
             /\ req' = Append(req, [r EXCEPT !.hpc = "rejected"])
             /\ serverUp' = FALSE
             /\ seq' = seq + 1
             /\ UNCHANGED cache
        ELSE IF Invalid(v)
        THEN /\ req' = Append(req, Answered(r, 400, ErrorBody(400), seq + 2))
             /\ seq' = seq + 2
             /\ UNCHANGED <<cache, serverUp>>
        ELSE IF CacheHit(v.text)
        THEN /\ req' = Append(req,
                          Answered([r EXCEPT !.cacheRead = TRUE], 200,
                                   Entry(v.text).v, seq + 2))
             /\ seq' = seq + 2
             /\ UNCHANGED <<cache, serverUp>>
        ELSE /\ req' = Append(req, [r EXCEPT !.cacheRead = TRUE, !.calls = 1,
                                             !.hpc = "details"])
             /\ cache' = CacheAfterGet(v.text)
             /\ seq' = seq + 1
             /\ UNCHANGED serverUp
  /\ UNCHANGED now
  /\ UNCHANGED <<selectVars, segVars, pageVars>>

\* line 132: what the details fetch comes back with: the details of the
\* kanji, the 404 of kanjiapi.dev for a character it does not know, or
\* another failure (another status, a network error, an unparsable body)
DetailsOutcomes == {"ok", "notfound", "failed"}

\* lines 130-163: the details fetch settles; on success the words fetch
\* starts, and every other outcome is thrown (line 136) and caught (line 152)
DetailsDone ==
  /\ serverUp
  /\ \E i \in DOMAIN req : \E outcome \in DetailsOutcomes :
       /\ req[i].hpc = "details"
       /\ IF outcome = "ok"
          THEN /\ req' = [req EXCEPT ![i].hpc = "words", ![i].calls = @ + 1,
                                     ![i].details = outcome]
               /\ UNCHANGED seq
          ELSE /\ req' = [req EXCEPT
                            ![i] = Answered([@ EXCEPT !.details = outcome],
                                            500, ErrorBody(500), seq + 1)]
               /\ seq' = seq + 1
  /\ UNCHANGED <<incoming, cache, now, serverUp>>
  /\ UNCHANGED <<selectVars, segVars, pageVars>>

\* lines 164-246: the words fetch settles; the response is put together and
\* the sentences fetch starts
WordsDone ==
  /\ serverUp
  /\ \E i \in DOMAIN req : \E fetch \in Fetches :
       /\ req[i].hpc = "words"
       /\ req' = [req EXCEPT ![i].hpc = "sentences", ![i].calls = @ + 1,
                             ![i].wordsOk = (fetch # "failed"),
                             ![i].words = WordsFetched(req[i].kanji.text, fetch)]
  /\ UNCHANGED <<incoming, cache, now, seq, serverUp>>
  /\ UNCHANGED <<selectVars, segVars, pageVars>>

\* lines 247-308: the sentences fetch settles; the response is stored and sent
SentencesDone ==
  /\ serverUp
  /\ \E i \in DOMAIN req : \E ok \in BOOLEAN :
       /\ req[i].hpc = "sentences"
       /\ LET k == req[i].kanji.text
              responseBody ==
                ResponseData(k, req[i].words,
                             IF ok THEN SentencesFetched(k) ELSE <<>>)
          IN /\ cache' = CacheSet(k, responseBody)
             /\ req' = [req EXCEPT
                          ![i] = Answered([@ EXCEPT !.sentencesOk = ok,
                                                    !.cacheWrote = TRUE],
                                          200, responseBody, seq + 1)]
       /\ seq' = seq + 1
  /\ UNCHANGED <<incoming, now, serverUp>>
  /\ UNCHANGED <<selectVars, segVars, pageVars>>

\* time passes (observed as long as a request is still to arrive)
Tick ==
  /\ incoming # <<>>
  /\ now < MaxTicks * TickSeconds
  /\ now' = now + TickSeconds
  /\ UNCHANGED <<incoming, req, cache, seq, serverUp>>
  /\ UNCHANGED <<selectVars, segVars, pageVars>>

\* the bodies clients send
Bodies ==
  {Undefined, Number, Str(<<>>), Str(<<"a">>), Str(<<Sha, "a">>),
   Str(<<Sha, Sha, Sha, Sha>>), Str(<<LoneSurrogate>>), Str(<<Sha>>),
   Str(<<Den>>)}

HandlerStart(bodies) ==
  /\ SelectIdle
  /\ SegmentIdle
  /\ PageIdle
  /\ incoming = bodies
  /\ req = <<>>
  /\ cache = {}
  /\ now = 0
  /\ seq = 0
  /\ serverUp = TRUE

\* up to MaxBodies requests with any body
InitHandler ==
  \E n \in 0..MaxBodies : \E bodies \in [1..n -> Bodies] : HandlerStart(bodies)

NextHandler == Receive \/ DetailsDone \/ WordsDone \/ SentencesDone \/ Tick

SpecHandler == InitHandler /\ [][NextHandler]_vars

\* up to MaxRequests requests that pass validation, for one of two kanji (the
\* first request asks for the first kanji: the two are handled alike)
ValidBodies == {Str(<<Sha>>), Str(<<Den>>)}

InitCache ==
  \E n \in 0..MaxRequests :
    \E bodies \in [1..n -> ValidBodies] :
      /\ n > 0 => bodies[1] = Str(<<Sha>>)
      /\ HandlerStart(bodies)

SpecCache == InitCache /\ [][NextHandler]_vars

(***************************************************************************)
(* The page script, src/unnamed/part_004 lines 1-317.  dom holds what the  *)
(* script reads and writes of the page: the value of #kanji-input, whether *)
(* #loading-indicator, #error-message and #results-section are visible,    *)
(* whether #generate-button is disabled, and the kanji written into        *)
(* #result-kanji.  history holds the session history: the kanji parameter  *)
(* of the URL of each entry (empty: none) and the current entry.  A call   *)
(* of handleGenerateClick runs to its first await in one step, then from   *)
(* the settled fetch to the next await, then from the parsed body to its   *)
(* end; other handlers run in between.                                     *)
(***************************************************************************)
\* String.prototype.trim
RECURSIVE TrimStart(_)
TrimStart(t) ==
  IF t # <<>> /\ Head(t) \in Whitespace THEN TrimStart(Tail(t)) ELSE t

RECURSIVE TrimEnd(_)
TrimEnd(t) ==
  IF t # <<>> /\ t[Len(t)] \in Whitespace
  THEN TrimEnd(SubSeq(t, 1, Len(t) - 1))
  ELSE t

Trim(t) == TrimEnd(TrimStart(t))

\* line 83: the regex of the page, the same ranges as line 106 of api.ts
FrontendRegexTest(t) == Len(t) >= 1 /\ \A i \in DOMAIN t : t[i] \in KanjiChars

NoLimit(k) == FALSE

\* line 87: kanji.length > 1
OverLimit(k) == Len(k) > 1

\* lines 79-90: none of the three checks returns
PassesFrontend(k) == Truthy(k) /\ FrontendRegexTest(k) /\ ~OverLimit(k)

\* lines 236-256: the indicator is shown and the button disabled, or the reverse
showLoading(d, isLoading) ==
  [d EXCEPT !.loadingIndicator = isLoading, !.generateButton = isLoading]

\* lines 272-277
hideResults(d) == [d EXCEPT !.resultsSection = FALSE]

NoError(d) == d

\* lines 258-262
showError(d) == hideResults([d EXCEPT !.errorMessageDiv = TRUE])

\* lines 264-266
hideError(d) == [d EXCEPT !.errorMessageDiv = FALSE]

\* lines 268-270
showResults(d) == [d EXCEPT !.resultsSection = TRUE]

\* lines 133-234
displayResults(d, data) == showResults([d EXCEPT !.resultKanji = data.kanji])

\* one call of handleGenerateClick: its kanji (line 76), what started it, where
\* it is, the status of its response (-1: none yet, 0: the fetch rejected),
\* and history: whether every earlier call had come to its end when it
\* started, whether the indicator was hidden and the button enabled when its
\* request had settled, what it showed at its end
Search(k, by, at) ==
  [kanji |-> k, by |-> by, pc |-> at, status |-> -1, alone |-> TRUE,
   hidLoading |-> FALSE, shown |-> "none"]

\* what of results and error message is visible on the page d
Shown(d) ==
  IF d.resultsSection /\ d.errorMessageDiv THEN "both"
  ELSE IF d.resultsSection THEN "results"
  ELSE IF d.errorMessageDiv THEN "error"
  ELSE "none"

Ended(ss) == \A j \in DOMAIN ss : ss[j].pc \in {"rejected", "done"}

\* lines 75-106: handleGenerateClick up to the fetch, on the page d
handleGenerateClick(d, ss, by) ==
  LET k == Trim(d.value)
  IN IF ~PassesFrontend(k)
     THEN [dom |-> showError(d),
           searches |-> Append(ss, [Search(k, by, "rejected")
                                      EXCEPT !.alone = Ended(ss),
                                             !.shown = Shown(showError(d))])]
     ELSE [dom |-> hideResults(hideError(showLoading(d, TRUE))),
           searches |-> Append(ss, [Search(k, by, "fetching")
                                      EXCEPT !.alone = Ended(ss)])]

\* the page is open
PageOpen == history.at > 0

\* line 119: new URLSearchParams(window.location.search).get('kanji')
currentSearch == history.entries[history.at]

\* lines 120-123: window.history.pushState drops the entries after the current
\* one and adds an entry
pushState(h, k) ==
  [entries |-> Append(SubSeq(h.entries, 1, h.at), k), at |-> h.at + 1]

\* what the user can type into #kanji-input (maxlength 1, index.ejs line 49)
TypedValues == {<<" ">>, <<LoneSurrogate>>, <<Sha>>}

\* what the kanji parameter of the URL the page is opened with can be
UrlValues ==
  {<<>>, <<" ", Sha, " ">>, <<Sha>>, <<Sha, Den>>, <<Sha, Sha, Sha, Sha>>,
   <<Sha, "a">>}

\* line 63: the kanji of data/kanjiLists.js
allKanji == {<<Sha>>, <<Den>>}

\* the status the fetch of line 96 can settle with for the body {kanji: k}:
\* 0 (the fetch rejects), 429 of the rate limiter of server.ts, and what
\* the handler of api.ts answers (400 exactly for an invalid body; nothing
\* when encodeURIComponent throws)
Statuses(k) ==
  {0, 429} \cup (IF EncodeThrows(Str(k)) THEN {}
                 ELSE IF Invalid(Str(k)) THEN {400}
                 ELSE {200, 500})

\* lines 75-106 after a click on #generate-button with v typed into the input;
\* a disabled button takes no click
ExploreClick ==
  /\ PageOpen
  /\ ~dom.generateButton
  /\ Len(searches) < MaxSearches
  /\ \E v \in TypedValues :
       \E r \in {handleGenerateClick([dom EXCEPT !.value = v], searches, "explore")} :
         /\ dom' = r.dom
         /\ searches' = r.searches
  /\ UNCHANGED history
  /\ UNCHANGED <<selectVars, segVars, handlerVars>>

\* lines 65-73
handleRandomKanjiClick ==
  /\ PageOpen
  /\ Len(searches) < MaxSearches
  /\ \E v \in allKanji :
       \E r \in {handleGenerateClick([dom EXCEPT !.value = v], searches, "random")} :
         /\ dom' = r.dom
         /\ searches' = r.searches
  /\ UNCHANGED history
  /\ UNCHANGED <<selectVars, segVars, handlerVars>>

\* lines 280-299: the user goes back or forward to another entry of the session
\* history; event.state.kanji of a pushed entry is the kanji of its URL
handlePopState ==
  /\ PageOpen
  /\ \E to \in DOMAIN history.entries \ {history.at} :
       /\ history' = [history EXCEPT !.at = to]
       /\ IF Truthy(history.entries[to])
          THEN /\ Len(searches) < MaxSearches
               /\ \E r \in {handleGenerateClick(
                              [dom EXCEPT !.value = history.entries[to]],
                              searches, "popstate")} :
                    /\ dom' = r.dom
                    /\ searches' = r.searches
          ELSE /\ dom' = [hideError(hideResults(dom)) EXCEPT !.value = <<>>]
               /\ UNCHANGED searches
  /\ UNCHANGED <<selectVars, segVars, handlerVars>>

\* lines 96-112 and 126-130: the fetch of a search settles
FetchSettles ==
  /\ \E i \in DOMAIN searches : \E status \in Statuses(searches[i].kanji) :
       /\ searches[i].pc = "fetching"
       /\ \E d \in {IF status = 0
                    THEN showError(showLoading(dom, FALSE))
                    ELSE showLoading(dom, FALSE)} :
            /\ dom' = d
            /\ searches' =
                 [searches EXCEPT
                    ![i].status = status,
                    ![i].hidLoading = ~d.loadingIndicator /\ ~d.generateButton,
                    ![i].pc = IF status = 0 THEN "done"
                              ELSE IF status = 200 THEN "dataBody"
                              ELSE "errorBody",
                    ![i].shown = IF status = 0 THEN Shown(d) ELSE "none"]
  /\ UNCHANGED history
  /\ UNCHANGED <<selectVars, segVars, handlerVars>>

\* lines 110-130: response.json() settles; parsed is FALSE when the body is not
\* JSON and when displayResults throws on what was parsed
BodyParsed ==
  /\ \E i \in DOMAIN searches : \E parsed \in BOOLEAN :
       /\ searches[i].pc \in {"dataBody", "errorBody"}
       /\ IF searches[i].pc = "dataBody" /\ parsed
          THEN /\ dom' = displayResults(dom, [kanji |-> searches[i].kanji])
               /\ history' = IF searches[i].kanji # currentSearch
                             THEN pushState(history, searches[i].kanji)
                             ELSE history
          ELSE /\ dom' = showError(showLoading(dom, FALSE))
               /\ UNCHANGED history
       /\ searches' = [searches EXCEPT ![i].pc = "done",
                                       ![i].shown = Shown(dom')]
  /\ UNCHANGED <<selectVars, segVars, handlerVars>>

\* lines 52-53 and 302-314: the script has loaded on a page opened with the
\* kanji parameter u; checkUrlForKanji has run to its first await
checkUrlForKanji(u) ==
  /\ history = [entries |-> <<u>>, at |-> 1]
  /\ \E d \in {[value |-> <<>>, loadingIndicator |-> FALSE,
                generateButton |-> FALSE, errorMessageDiv |-> FALSE,
                resultsSection |-> FALSE, resultKanji |-> <<>>]} :
       IF Truthy(u)
       THEN \E r \in {handleGenerateClick([d EXCEPT !.value = u], <<>>, "url")} :
              dom = r.dom /\ searches = r.searches
       ELSE dom = d /\ searches = <<>>

InitPage ==
  /\ SelectIdle
  /\ SegmentIdle
  /\ HandlerIdle
  /\ \E u \in UrlValues : checkUrlForKanji(u)

NextPage ==
  ExploreClick \/ handleRandomKanjiClick \/ handlePopState \/ FetchSettles
  \/ BodyParsed

SpecPage == InitPage /\ [][NextPage]_vars

\* a parsed body is handled: the continuation of an await runs
FairPage == InitPage /\ [][NextPage]_vars /\ WF_vars(BodyParsed)

(***************************************************************************)
(* Vocabulary of the properties.                                           *)
(***************************************************************************)
Output == responseData.compound_words

Done == pc = "done"

\* the variants of the candidate list in encounter order, each with its entry
RECURSIVE Encounter(_)
Encounter(data) ==
  IF data = <<>> THEN <<>>
  ELSE [i \in 1..Len(Head(data).variants) |->
          [entry |-> Head(data), variant |-> Head(data).variants[i]]]
       \o Encounter(Tail(data))

IsEligiblePair(p) == Eligible(p.entry, p.variant)

IsPreferredPair(p) == Eligible(p.entry, p.variant) /\ IsPreferred(p.variant)

IsOtherPair(p) == Eligible(p.entry, p.variant) /\ ~IsPreferred(p.variant)

CompoundsOf(pairs) == [i \in DOMAIN pairs |-> Compound(pairs[i].entry, pairs[i].variant)]

WordsOf(items) == {items[i].word : i \in DOMAIN items}

Distinct(items) ==
  \A i, j \in DOMAIN items : i # j => items[i].word # items[j].word

FirstN(items, n) == SubSeq(items, 1, IF Len(items) < n THEN Len(items) ELSE n)

Min(a, b) == IF a < b THEN a ELSE b

RECURSIVE IsSubsequence(_, _)
IsSubsequence(a, b) ==
  IF a = <<>> THEN TRUE
  ELSE IF b = <<>> THEN FALSE
  ELSE IF Head(a) = Head(b) THEN IsSubsequence(Tail(a), Tail(b))
  ELSE IsSubsequence(a, Tail(b))

\* t occurs in s at some offset, stated position by position
OccursIn(t, s) ==
  \E a \in 1..Len(s) :
    \A k \in 1..Len(t) : a + k - 1 <= Len(s) /\ s[a + k - 1] = t[k]

SameLetter(c, d) ==
  \/ c = d
  \/ \E i \in DOMAIN UpperLetters :
       {c, d} \subseteq {UpperLetters[i], LowerLetters[i]}

EqualIgnoringCase(a, b) ==
  Len(a) = Len(b) /\ \A i \in DOMAIN a : SameLetter(a[i], b[i])

\* the variant passes every rule but the ones on its written form
EligibleButWritten(p) ==
  /\ HasFields(p.variant.written, p.variant.pronounced, Gloss(p.entry))
  /\ ~SameMeaning(Gloss(p.entry))
  /\ HasPriority(p.variant)

HasSource(item, Tagged(_)) ==
  \E i \in DOMAIN Encounter(wordsData) :
    LET p == Encounter(wordsData)[i]
    IN Compound(p.entry, p.variant) = item /\ Tagged(p.variant)

\* some tag of the variant is not the empty string
HasNonEmptyTag(variant) ==
  \E i \in DOMAIN variant.priorities : variant.priorities[i] # <<>>

\* the variant has a tag
HasTag(variant) == variant.priorities # <<>>

\* 6 entries of one variant each, every variant eligible with a preferred tag
SixPreferred ==
  /\ Len(wordsData) = 6
  /\ \A e \in DOMAIN wordsData : Len(wordsData[e].variants) = 1
  /\ \A i \in DOMAIN Encounter(wordsData) : IsPreferredPair(Encounter(wordsData)[i])

\* the eligible variants of the list by the tag class they fall in
PreferredPairs == SelectSeq(Encounter(wordsData), IsPreferredPair)

OtherPairs == SelectSeq(Encounter(wordsData), IsOtherPair)

EligiblePairs == SelectSeq(Encounter(wordsData), IsEligiblePair)

(***************************************************************************)
(* C1.  When the concatenated preferred+other list holds a written form    *)
(* more than once, the output item of that word has the reading and the    *)
(* meaning of the first occurrence in the concatenated list.               *)
(***************************************************************************)
C1_FirstOccurrenceKept ==
  Done =>
    LET combined == Combined(preferredCompounds, otherPriorityCompounds)
    IN \A i \in DOMAIN Output :
         \A k \in DOMAIN combined :
           (/\ combined[k].word = Output[i].word
            /\ \A j \in 1..(k - 1) : combined[j].word # Output[i].word)
           => Output[i] = combined[k]

(***************************************************************************)
(* C2.  compound_words of the response has at most 5 items.                *)
(***************************************************************************)
C2_AtMostFive == Len(Output) <= 5

\* more than 5 distinct words were collected and the response holds 5
C2_Witness == Done /\ Len(compoundWordsList) > 5 /\ Len(Output) = 5

(***************************************************************************)
(* C3.  No two items of the output have the same word.                     *)
(***************************************************************************)
C3_NoDuplicateWord == Distinct(Output)

\* the collected tiers held a word twice and an item of it is in the output
C3_Witness ==
  /\ Done
  /\ ~Distinct(Combined(preferredCompounds, otherPriorityCompounds))
  /\ Len(Output) >= 1

(***************************************************************************)
(* C4.  The output never holds an item whose word is the queried kanji     *)
(* itself, also when that variant passes every other rule.                 *)
(***************************************************************************)
C4_NeverKanjiAlone == \A i \in DOMAIN Output : Output[i].word # kanji

\* a variant written as the kanji alone passed the other rules, next to a selected word
C4_Witness ==
  /\ Done
  /\ \E i \in DOMAIN Encounter(wordsData) :
       LET p == Encounter(wordsData)[i]
       IN p.variant.written = kanji /\ EligibleButWritten(p)
  /\ Len(Output) >= 1

(***************************************************************************)
(* C5.  With a known meaning of the kanji, no output item has a meaning    *)
(* equal to it when letter case is ignored.                                *)
(***************************************************************************)
C5_MeaningDiffers ==
  Truthy(mainKanjiDetails.mainMeaningForFilter) =>
    \A i \in DOMAIN Output :
      ~EqualIgnoringCase(Output[i].meaning, mainKanjiDetails.meaning)

\* meaning 'car', an entry glossed 'Car' with a variant passing the other rules,
\* and a selected word of another entry
C5_Witness ==
  /\ Done
  /\ mainKanjiDetails.meaning = CarLower
  /\ \E i \in DOMAIN Encounter(wordsData) :
       LET p == Encounter(wordsData)[i]
       IN /\ Gloss(p.entry) = CarUpper
          /\ Truthy(p.variant.written) /\ Truthy(p.variant.pronounced)
          /\ ~IsSelf(p.variant.written) /\ HasKanji(p.variant.written)
          /\ ~TooLong(p.variant.written) /\ HasPriority(p.variant)
  /\ Len(Output) >= 1

(***************************************************************************)
(* C6.  Every output word contains the queried kanji and is at most 4      *)
(* characters long.                                                        *)
(***************************************************************************)
C6_ContainsKanjiAndShort ==
  \A i \in DOMAIN Output :
    OccursIn(kanji, Output[i].word) /\ Len(Output[i].word) <= 4

\* a 5-character word and a word without the kanji were scanned, and a
\* 4-character word was selected
C6_Witness ==
  /\ Done
  /\ \E i \in DOMAIN Encounter(wordsData) :
       LET p == Encounter(wordsData)[i]
       IN Len(p.variant.written) = 5 /\ EligibleButWritten(p)
  /\ \E i \in DOMAIN Encounter(wordsData) :
       LET p == Encounter(wordsData)[i]
       IN ~OccursIn(kanji, p.variant.written) /\ EligibleButWritten(p)
  /\ \E i \in DOMAIN Output : Len(Output[i].word) = 4

(***************************************************************************)
(* C7.  As claimed: every output item comes from a variant with at least   *)
(* one priority tag that is not the empty string.                          *)
(***************************************************************************)
C7_NonEmptyTag == \A i \in DOMAIN Output : HasSource(Output[i], HasNonEmptyTag)

(***************************************************************************)
(* C7, amended.  Every output item comes from a variant with at least one  *)
(* priority tag (the empty string counts as a tag); a variant without tags *)
(* never contributes an item.                                              *)
(***************************************************************************)
C7_HasTag == \A i \in DOMAIN Output : HasSource(Output[i], HasTag)

\* a variant without tags was scanned and a tagged one was selected
C7_Witness ==
  /\ Done
  /\ \E i \in DOMAIN Encounter(wordsData) :
       LET p == Encounter(wordsData)[i]
       IN /\ p.variant.priorities = <<>>
          /\ HasFields(p.variant.written, p.variant.pronounced, Gloss(p.entry))
          /\ ~IsSelf(p.variant.written) /\ HasKanji(p.variant.written)
          /\ ~TooLong(p.variant.written) /\ ~SameMeaning(Gloss(p.entry))
  /\ Len(Output) >= 1

(***************************************************************************)
(* C8.  The output lists items of the preferred tier before items of the   *)
(* other tier, and within a tier in the order of encounter: the output is  *)
(* a subsequence of preferred followed by other, and each tier is a        *)
(* subsequence of the variants in encounter order.                         *)
(***************************************************************************)
C8_TierOrder ==
  Done =>
    /\ IsSubsequence(Output, Combined(preferredCompounds, otherPriorityCompounds))
    /\ IsSubsequence(preferredCompounds, CompoundsOf(Encounter(wordsData)))
    /\ IsSubsequence(otherPriorityCompounds, CompoundsOf(Encounter(wordsData)))

(***************************************************************************)
(* C9.  As claimed: 6 candidates with 6 eligible variants, all with a      *)
(* preferred tag, give exactly 5 items, the first five in encounter order. *)
(***************************************************************************)
C9_ExactlyFive ==
  (Done /\ SixPreferred) =>
    Output = FirstN(CompoundsOf(Encounter(wordsData)), 5) /\ Len(Output) = 5

(***************************************************************************)
(* C9, amended.  6 candidates with 6 eligible variants of pairwise         *)
(* distinct written forms, all with a preferred tag, give exactly 5 items, *)
(* the first five in encounter order.                                      *)
(***************************************************************************)
C9_ExactlyFiveDistinct ==
  (Done /\ SixPreferred /\ Distinct(CompoundsOf(Encounter(wordsData)))) =>
    Output = FirstN(CompoundsOf(Encounter(wordsData)), 5) /\ Len(Output) = 5

C9_Witness ==
  /\ Done
  /\ SixPreferred
  /\ Distinct(CompoundsOf(Encounter(wordsData)))
  /\ Len(Output) = 5

(***************************************************************************)
(* C10.  As claimed: with fewer than 5 preferred-tier variants in the      *)
(* whole list, the output holds min(5, number of distinct eligible written *)
(* forms of the list) items.                                               *)
(***************************************************************************)
C10_SupplementToFive ==
  (Done /\ Len(PreferredPairs) < 5) =>
    Len(Output) = Min(5, Cardinality(WordsOf(CompoundsOf(EligiblePairs))))

(***************************************************************************)
(* C10, amended.  With fewer than 5 preferred-tier variants in the whole   *)
(* list, the preferred-tier variants are supplemented with the first 5     *)
(* other-tier variants and duplicates are removed afterwards: the output   *)
(* holds min(5, number of distinct written forms among those) items.       *)
(***************************************************************************)
C10_SupplementFirstFive ==
  (Done /\ Len(PreferredPairs) < 5) =>
    Len(Output) =
      Min(5, Cardinality(WordsOf(CompoundsOf(PreferredPairs))
                         \cup WordsOf(FirstN(CompoundsOf(OtherPairs), 5))))

\* some but fewer than 5 preferred variants, more than 5 eligible variants in
\* all, 5 items returned, one of them from the other tier
C10_Witness ==
  /\ Done
  /\ Len(PreferredPairs) >= 1
  /\ Len(PreferredPairs) < 5
  /\ Len(PreferredPairs) + Len(OtherPairs) > 5
  /\ Len(Output) = 5
  /\ \E i \in DOMAIN Output : \E j \in DOMAIN OtherPairs :
       Output[i].word = OtherPairs[j].variant.written

(***************************************************************************)
(* The selection as a function of the candidate list: the relevance scan   *)
(* run to its end on a list without null values, then assembly and slice.  *)
(***************************************************************************)
RECURSIVE ScanFrom(_, _, _)
ScanFrom(data, pos, t) ==
  IF pos.ei <= 0 THEN t
  ELSE LET t2 == Tiers(data[pos.ei], data[pos.ei].variants[pos.vi],
                       t.preferred, t.other)
       IN ScanFrom(data,
                   NextVariant(data, pos.ei, pos.vi + 1, t2.preferred, t2.other),
                   t2)

SelectOf(data) ==
  LET t == ScanFrom(data, NextVariant(data, 1, 0, <<>>, <<>>),
                    [preferred |-> <<>>, other |-> <<>>])
  IN Slice5(UniqueCompounds(Combined(t.preferred, t.other)))

\* the units of input that are neither malformed nor missing
WellFormedVariant(variant) ==
  /\ ~IsNull(variant)
  /\ Truthy(variant.written)
  /\ Truthy(variant.pronounced)
  /\ variant.priorities # <<>>

WellFormedEntry(wordEntry) ==
  /\ ~IsNull(wordEntry)
  /\ HasVariants(wordEntry)
  /\ Len(wordEntry.glosses) > 0

WithoutMalformed(data) ==
  LET kept == SelectSeq(data, WellFormedEntry)
  IN [i \in DOMAIN kept |->
        [variants |-> SelectSeq(kept[i].variants, WellFormedVariant),
         glosses |-> kept[i].glosses]]

HasNullUnit(data) ==
  \E e \in DOMAIN data :
    \/ IsNull(data[e])
    \/ /\ HasVariants(data[e])
       /\ \E v \in DOMAIN data[e].variants : IsNull(data[e].variants[v])

(***************************************************************************)
(* C11.  Malformed or missing units of the candidate list (an entry        *)
(* without variants or without gloss, a variant without written form,      *)
(* pronounced form or tags, a null entry or variant) are skipped one by    *)
(* one: the output is the output computed for the list without them.       *)
(***************************************************************************)
C11_OnlyOffendingUnitDropped ==
  Done => Output = SelectOf(WithoutMalformed(wordsData))

\* the tags the preferred tier is documented for: news1, news2, nf01 to nf15
ExactPreferredTags ==
  {News1, <<"n","e","w","s","2">>}
  \cup {<<"n","f","0",d>> : d \in {"1","2","3","4","5","6","7","8","9"}}
  \cup {<<"n","f","1",d>> : d \in {"0","1","2","3","4","5"}}

HasExactPreferredTag(variant) ==
  \E i \in DOMAIN variant.priorities : variant.priorities[i] \in ExactPreferredTags

(***************************************************************************)
(* C12.  Every item of the preferred tier comes from a variant one of      *)
(* whose tags is exactly news1, news2 or nf01 to nf15; no other tag (nf00, *)
(* nf16, ichi1, a longer string containing one of these) makes a variant   *)
(* preferred.                                                              *)
(***************************************************************************)
C12_PreferredOnlyExactTag ==
  \A i \in DOMAIN preferredCompounds :
    HasSource(preferredCompounds[i], HasExactPreferredTag)

\* a variant tagged news12 and nf16 was scanned and went to the other tier
C12_Witness ==
  /\ Done
  /\ wordsData[1].variants[1].priorities =
       <<<<"n","e","w","s","1","2">>, <<"n","f","1","6">>>>
  /\ Len(otherPriorityCompounds) = 1
  /\ preferredCompounds = <<>>

(***************************************************************************)
(* Vocabulary of the segmenter properties.                                 *)
(***************************************************************************)
SegDone == segPc = "done"

HasReading(seg) == "reading" \in DOMAIN seg

\* the text fields of the segments, concatenated in order
RECURSIVE Concat(_)
Concat(segs) ==
  IF segs = <<>> THEN <<>> ELSE Head(segs).text \o Concat(Tail(segs))

\* the characters of s from position i on that are not bracket syntax: the
\* base of every bracket token and every character outside the tokens except
\* "[" and "]"
RECURSIVE Content(_, _)
Content(s, i) ==
  IF i > Len(s) THEN <<>>
  ELSE IF BracketEnd(s, i) # 0
  THEN SubSeq(s, i + 1, BarOf(s, i) - 1) \o Content(s, BracketEnd(s, i) + 1)
  ELSE IF s[i] \in {"[", "]"} THEN Content(s, i + 1)
  ELSE <<s[i]>> \o Content(s, i + 1)

NotWhitespace(c) == c \notin Whitespace

WithoutWhitespace(t) == SelectSeq(t, NotWhitespace)

\* "[" base "|" annotation "]"
Span(base, annotation) == <<"[">> \o base \o <<"|">> \o annotation \o <<"]">>

NoBar(t) == \A i \in DOMAIN t : t[i] # "|"

\* no bracket token starts anywhere in s
NoBracketToken(s) == \A i \in DOMAIN s : BracketEnd(s, i) = 0

C14_ConcatReproducesContent ==
  (SegDone /\ ~IsNull(input)) => Concat(segments) = Content(input.text, 1)

(***************************************************************************)
(* C14, amended.  The concatenated text fields reproduce the characters of *)
(* the input that are not bracket syntax, in the same order, except that   *)
(* whitespace-only plain runs and whitespace-only bases are left out: the  *)
(* concatenation is a subsequence of those characters and holds all of     *)
(* them that are not whitespace.                                           *)
(***************************************************************************)
C14_ConcatReproducesNonBlank ==
  (SegDone /\ ~IsNull(input)) =>
    /\ IsSubsequence(Concat(segments), Content(input.text, 1))
    /\ WithoutWhitespace(Concat(segments)) =
         WithoutWhitespace(Content(input.text, 1))

\* a blank run between two bracket tokens was left out
C14_Witness ==
  /\ SegDone
  /\ Len(segments) = 2
  /\ origin = <<"bracket", "bracket">>
  /\ Concat(segments) # Content(input.text, 1)

(***************************************************************************)
(* C15.  Every segment has a non-empty (and non-blank) text; a segment     *)
(* carries a reading exactly when it came from a bracket token, whose base *)
(* is then non-empty; a segment from a plain run carries no reading.       *)
(***************************************************************************)
C15_TextNonEmptyReadingIffBracket ==
  /\ Len(origin) = Len(segments)
  /\ \A i \in DOMAIN segments :
       /\ segments[i].text # <<>>
       /\ ~IsBlank(segments[i].text)
       /\ HasReading(segments[i]) <=> origin[i] = "bracket"

\* a plain segment, then a bracket token with a blank base, then a bracket segment
C15_Witness ==
  /\ SegDone
  /\ input = Text(<<"x", "[", " ", "|", "y", "]">> \o Span(<<"x">>, <<"y">>))
  /\ segments = <<[text |-> <<"x">>], [text |-> <<"x">>, reading |-> <<"y">>]>>

C17_TerminatesAndSkips ==
  /\ <>SegDone
  /\ [][segPc = "scan" => sp' > sp]_vars
  /\ []((SegDone /\ (IsNull(input) \/ input = Text(<<>>))) => segments = <<>>)
  /\ []((SegDone /\ ~IsNull(input) /\ NoBracketToken(input.text)) =>
         \A i \in DOMAIN segments :
           /\ ~HasReading(segments[i])
           /\ \A k \in DOMAIN segments[i].text :
                segments[i].text[k] \notin {"[", "]"})

\* "[x" was scanned: the unterminated "[" was skipped, "x" is a plain segment
C17_Witness ==
  /\ SegDone
  /\ input = Text(<<"[", "x">>)
  /\ segments = <<[text |-> <<"x">>]>>

(***************************************************************************)
(* Vocabulary of the handler properties.                                   *)
(***************************************************************************)
\* the kanji field is missing, not a string, holds a character outside the
\* kanji ranges, or is longer than 3 characters
InvalidInput(v) ==
  \/ v.type # "string"
  \/ \E i \in DOMAIN v.text : v.text[i] \notin KanjiChars
  \/ Len(v.text) > 3

\* request i stored its response, request j arrived after that
StoredBefore(i, j) ==
  /\ req[i].cacheWrote
  /\ req[i].status = 200
  /\ req[i].kanji = req[j].kanji
  /\ req[i].answered < req[j].arrived

\* request j arrived within the lifetime of what request i stored
WithinLifetime(i, j) == req[j].arrivedAt <= req[i].answeredAt + stdTTL

\* request j was answered with the response request i stored, without a fetch
ServedFrom(i, j) ==
  req[j].status = 200 /\ req[j].body = req[i].body /\ req[j].calls = 0

\* request i made the latest store for the kanji of j before j arrived
LatestStoreBefore(i, j) ==
  /\ StoredBefore(i, j)
  /\ \A m \in DOMAIN req : StoredBefore(m, j) => req[m].answered <= req[i].answered

\* the responses for k of a request whose fetches all succeeded
FullResponses(k) ==
  {ResponseData(k, WordsFetched(k, fetch), SentencesFetched(k)) :
     fetch \in Fetches \ {"failed"}}

(***************************************************************************)
(* C18.  A request whose kanji field is missing, not a string, holds a     *)
(* character outside the kanji ranges or is longer than 3 characters is    *)
(* answered with status 400, without an external call and without a read   *)
(* or write of the cache.                                                  *)
(***************************************************************************)
C18_InvalidInputAnswered400 ==
  \A i \in DOMAIN req :
    InvalidInput(req[i].kanji) =>
      /\ req[i].status = 400
      /\ req[i].calls = 0
      /\ ~req[i].cacheRead
      /\ ~req[i].cacheWrote

C20_OnlySuccessfulDataCached ==
  /\ \A i \in DOMAIN req :
       req[i].cacheWrote => req[i].wordsOk /\ req[i].sentencesOk
  /\ \A e \in cache : e.v \in FullResponses(e.k)
  /\ \A j \in DOMAIN req :
       (req[j].status = 200 /\ req[j].calls = 0)
         => req[j].body \in FullResponses(req[j].kanji.text)

(***************************************************************************)
(* C21.  A request with a valid kanji whose details lookup reports "not    *)
(* found" is answered with status 404, and a request answered with status  *)
(* 500 had a details lookup that failed in another way.                    *)
(***************************************************************************)
C21_NotFoundAnswered404 ==
  \A i \in DOMAIN req :
    req[i].hpc = "done" =>
      /\ req[i].details = "notfound" => req[i].status = 404
      /\ req[i].status = 500 => req[i].details = "failed"

(***************************************************************************)
(* Vocabulary of the scan: the variant the inner loop body runs on next,   *)
(* and the tiers the scan ends with on a list.                             *)
(***************************************************************************)
Scanning == pc = "scan"

CurrentEntry == wordsData[ei]

CurrentVariant == wordsData[ei].variants[vi]

CurrentCompound == Compound(CurrentEntry, CurrentVariant)

TiersOf(data) ==
  ScanFrom(data, NextVariant(data, 1, 0, <<>>, <<>>),
           [preferred |-> <<>>, other |-> <<>>])

\* the preferred tier reaches 5 entries in the first e entries of the list
Filled(data, e) == Len(TiersOf(SubSeq(data, 1, e)).preferred) >= 5

(***************************************************************************)
(* C23.  At every step of the scan a variant enters the preferred tier     *)
(* only with a tag that matches a preferred pattern, and the other tier    *)
(* only with no such tag.                                                  *)
(***************************************************************************)
C23_TierByTagsAlone ==
  [][Scanning =>
       /\ preferredCompounds' # preferredCompounds => IsPreferred(CurrentVariant)
       /\ otherPriorityCompounds' # otherPriorityCompounds
            => ~IsPreferred(CurrentVariant)]_vars

(***************************************************************************)
(* C24.  At every point of the scan the preferred tier holds at most 5     *)
(* entries and the two tiers together hold at most 10.                     *)
(***************************************************************************)
C24_TierCaps ==
  /\ Len(preferredCompounds) <= 5
  /\ Len(preferredCompounds) + Len(otherPriorityCompounds) <= 10

\* both caps are reached with eligible variants left over
C24_Witness ==
  /\ Len(preferredCompounds) = 5
  /\ Len(preferredCompounds) + Len(otherPriorityCompounds) = 10
  /\ Len(PreferredPairs) > 5
  /\ Len(EligiblePairs) > 10

(***************************************************************************)
(* C25.  As claimed: an eligible variant without a preferred tag that the  *)
(* scan reaches is added to the other tier whenever the two tiers together *)
(* hold fewer than 10 entries.                                             *)
(***************************************************************************)
C25_OtherBoundedByCombinedCap ==
  [][(/\ Scanning
      /\ Eligible(CurrentEntry, CurrentVariant)
      /\ ~IsPreferred(CurrentVariant)
      /\ Len(preferredCompounds) + Len(otherPriorityCompounds) < 10)
     => otherPriorityCompounds' = Append(otherPriorityCompounds, CurrentCompound)]_vars

(***************************************************************************)
(* C25, amended.  The other tier has a cap of its own: an eligible variant *)
(* without a preferred tag that the scan reaches is added to the other     *)
(* tier exactly when the other tier holds fewer than 5 entries, and is     *)
(* dropped otherwise.                                                      *)
(***************************************************************************)
C25_OtherCappedAtFive ==
  [][(/\ Scanning
      /\ Eligible(CurrentEntry, CurrentVariant)
      /\ ~IsPreferred(CurrentVariant))
     => /\ preferredCompounds' = preferredCompounds
        /\ IF Len(otherPriorityCompounds) < 5
           THEN otherPriorityCompounds' =
                  Append(otherPriorityCompounds, CurrentCompound)
           ELSE otherPriorityCompounds' = otherPriorityCompounds]_vars

\* a sixth variant without a preferred tag was reached with fewer than 10
\* entries in the tiers, and the other tier stayed at 5
C25_Witness ==
  /\ Done
  /\ Len(preferredCompounds) < 5
  /\ Len(otherPriorityCompounds) = 5
  /\ Len(OtherPairs) > 5

(***************************************************************************)
(* C26.  Once the preferred tier has reached 5 entries during an entry, no *)
(* variant of a later entry is scanned, the tiers are the ones of the list *)
(* cut after that entry, and so is the output.                             *)
(***************************************************************************)
C26_LaterEntriesWithoutInfluence ==
  /\ Scanning => \A e \in 1..(ei - 1) : ~Filled(wordsData, e)
  /\ Done =>
       \A e \in DOMAIN wordsData :
         \A t \in {TiersOf(SubSeq(wordsData, 1, e))} :
           (Len(t.preferred) >= 5 /\ \A d \in 1..(e - 1) : ~Filled(wordsData, d))
           => /\ preferredCompounds = t.preferred
              /\ otherPriorityCompounds = t.other
              /\ Output = Slice5(UniqueCompounds(Combined(t.preferred, t.other)))

\* the preferred tier filled up in the first entry, the other tier had room,
\* and the second entry holds variants of both kinds
C26_Witness ==
  /\ Done
  /\ Filled(wordsData, 1)
  /\ Len(otherPriorityCompounds) < 5
  /\ \E v \in DOMAIN wordsData[2].variants : IsPreferred(wordsData[2].variants[v])
  /\ \E v \in DOMAIN wordsData[2].variants : ~IsPreferred(wordsData[2].variants[v])

(***************************************************************************)
(* Vocabulary of the page: searches by where they are.                     *)
(***************************************************************************)
InFlight(i) == searches[i].pc = "fetching"

Validated(i) == searches[i].pc # "rejected"

Settled(i) == Validated(i) /\ searches[i].pc # "fetching"

Finished(i) == searches[i].pc = "done"

AllFinished == \A i \in DOMAIN searches : Validated(i) => Finished(i)

\* no search started while an earlier one was under way
NoOverlap == \A i \in DOMAIN searches : searches[i].alone

\* the searches that passed validation, in the order of their start
ValidatedSearches == SelectSeq(searches, LAMBDA x : x.pc # "rejected")

(***************************************************************************)
(* C22.  While the request of at least one search is in flight, the        *)
(* loading indicator is visible and the Explore button is disabled.        *)
(***************************************************************************)
C22_LoadingWhileInFlight ==
  (\E i \in DOMAIN searches : InFlight(i)) =>
    dom.loadingIndicator /\ dom.generateButton

(***************************************************************************)
(* C27.  The error message and the results section are never visible at    *)
(* the same time.                                                          *)
(***************************************************************************)
C27_ErrorExcludesResults == ~(dom.errorMessageDiv /\ dom.resultsSection)

(***************************************************************************)
(* C30.  When all searches have finished and results are on the page, the  *)
(* results and the kanji of the URL are those of the search that started   *)
(* last.                                                                   *)
(***************************************************************************)
C30_LatestSearchShown ==
  (AllFinished /\ dom.resultsSection) =>
    \A last \in {ValidatedSearches[Len(ValidatedSearches)]} :
      /\ dom.resultKanji = last.kanji
      /\ currentSearch = last.kanji

(***************************************************************************)
(* C28.  Every search that passes the validation of the page sends a body  *)
(* that passes the validation of the backend, and is not answered 400.     *)
(***************************************************************************)
C28_FrontendAtLeastAsStrict ==
  \A i \in DOMAIN searches :
    Validated(i) =>
      /\ ~EncodeThrows(Str(searches[i].kanji))
      /\ ~Invalid(Str(searches[i].kanji))
      /\ searches[i].status # 400

\* the page refused a value the backend takes (two kanji) and one it refuses,
\* and a value that passed was answered by the handler
C28_Witness ==
  /\ \E i \in DOMAIN searches :
       ~Validated(i) /\ ~Invalid(Str(searches[i].kanji))
  /\ \E i \in DOMAIN searches :
       ~Validated(i) /\ Invalid(Str(searches[i].kanji))
  /\ \E i \in DOMAIN searches : Validated(i) /\ searches[i].status = 200

(***************************************************************************)
(* C29.  Every search whose request has settled comes to its end; the     *)
(* loading indicator was hidden and the Explore button enabled when the    *)
(* request had settled, and at its end the results or the error message   *)
(* are visible.                                                            *)
(***************************************************************************)
C29_SettledSearchFinishes ==
  \A i \in 1..MaxSearches :
    (i \in DOMAIN searches /\ Settled(i))
      ~> (/\ i \in DOMAIN searches
          /\ Finished(i)
          /\ searches[i].hidLoading
          /\ searches[i].shown # "none")

\* searches have finished after each kind of response: results, an HTTP
\* error, a body that is not JSON behind status 200, a rejected fetch
C29_Witness ==
  /\ AllFinished
  /\ \E i \in DOMAIN searches :
       searches[i].status = 200 /\ searches[i].shown = "results"
  /\ \E i \in DOMAIN searches :
       searches[i].status = 200 /\ searches[i].shown = "error"
  /\ \E i \in DOMAIN searches : searches[i].status \in {429, 500}

====
